---- MODULE Spec2Model ----
(***************************************************************************)
(* A model of data-transform (src/src/data-transform.js): transformData,   *)
(* its helpers and the path accessor it is built on.                       *)
(*                                                                         *)
(* JavaScript objects live in a heap (a sequence of cells, addressed by    *)
(* their index), so that two references to one object are one cell and a   *)
(* write through either is seen through both.  transformData is run as a   *)
(* machine with an explicit call stack: one frame per transformData call,  *)
(* one action per step of its body.                                        *)
(***************************************************************************)
EXTENDS Naturals, Sequences, FiniteSets, TLC

VARIABLES
    source,        \* the first argument of the outermost call
    instructions,  \* the second argument of the outermost call
    options,       \* the third argument of the outermost call
    heap,          \* the objects and arrays that exist
    heap0,         \* the heap before the call (the pre-call snapshot)
    stack,         \* the transformData calls in progress, innermost last
    outcome,       \* how the outermost call ended, once it has
    log,           \* what happened, in order (callback calls, warnings, writes)
    finished       \* the outermost calls made before this one, as they ended

vars ==
    <<source, instructions, options, heap, heap0, stack, outcome, log,
      finished>>

----------------------------------------------------------------------------
(* Bounds *)

\* The longest instruction list given to the outermost call.
MaxInstrs == 2

----------------------------------------------------------------------------
(* JavaScript values.  t is the value's kind, s the text of a string, n    *)
(* the heap address of an object or array.                                 *)

Undef == [t |-> "undefined", s |-> "", n |-> 0]
Null == [t |-> "null", s |-> "", n |-> 0]
Str(text) == [t |-> "string", s |-> text, n |-> 0]
Ref(addr) == [t |-> "object", s |-> "", n |-> addr]

\* A heap cell: an object or an array with its own enumerable properties.
\* An array's properties are its indices "0", "1", ...
Obj(props) == [kind |-> "object", props |-> props]
Arr(props) == [kind |-> "array", props |-> props]
NoProps == [k \in {} |-> Undef]

IndexKey == <<"0", "1", "2", "3">>
ArrayOf(values) ==
    Arr([k \in {IndexKey[i] : i \in 1..Len(values)} |->
            values[CHOOSE i \in 1..Len(values) : IndexKey[i] = k]])

\* The length of the array in a cell.
ArrayLength(cell) == Cardinality(DOMAIN cell.props)
\* The elements of the array in a cell, in index order.
ArrayElements(cell) == [i \in 1..ArrayLength(cell) |-> cell.props[IndexKey[i]]]

isObject(value) == value.t = "object"
isArray(h, value) == value.t = "object" /\ h[value.n].kind = "array"

\* f with key k set to v (k added when it is not yet a key).
SetKey(f, k, v) == [x \in DOMAIN f \cup {k} |-> IF x = k THEN v ELSE f[x]]
\* Object.assign(target, from): from's own properties copied onto target's.
AssignProps(target, from) ==
    [x \in DOMAIN target \cup DOMAIN from |->
        IF x \in DOMAIN from THEN from[x] ELSE target[x]]

----------------------------------------------------------------------------
(* Paths.  A path is null, a dot-delimited string (str: its characters) or *)
(* an array of segments (segs: values).                                    *)

NullPath == [kind |-> "null", str |-> <<>>, segs |-> <<>>]
NoPath == [kind |-> "undefined", str |-> <<>>, segs |-> <<>>]
DotPath(chars) == [kind |-> "string", str |-> chars, segs |-> <<>>]
ArrayPath(segs) == [kind |-> "array", str |-> <<>>, segs |-> segs]

\* String.prototype.split('.') on a string given as its characters.
RECURSIVE SplitFrom(_, _, _)
SplitFrom(chars, i, cur) ==
    IF i > Len(chars) THEN <<cur>>
    ELSE IF chars[i] = "." THEN <<cur>> \o SplitFrom(chars, i + 1, "")
    ELSE SplitFrom(chars, i + 1, cur \o chars[i])
Split(chars) == SplitFrom(chars, 1, "")

\* The segments of a path, as values.
Segments(path) ==
    IF path.kind = "string"
    THEN [i \in 1..Len(Split(path.str)) |-> Str(Split(path.str)[i])]
    ELSE path.segs

\* The accessor refuses a path with a segment that is not a string, or an
\* empty one.
IllegalPath(path) ==
    \E i \in 1..Len(Segments(path)) :
        Segments(path)[i].t # "string" \/ Segments(path)[i].s = ""

----------------------------------------------------------------------------
(* The path accessor (@szydlovski/deep-property).                          *)

\* extractDeepProperty on a legal path: <<exists, value>>.
RECURSIVE Walk(_, _, _, _)
Walk(h, value, segs, i) ==
    IF i > Len(segs) THEN <<TRUE, value>>
    ELSE IF ~isObject(value) THEN <<FALSE, Undef>>
    ELSE IF segs[i].s \notin DOMAIN h[value.n].props THEN <<FALSE, Undef>>
    ELSE Walk(h, h[value.n].props[segs[i].s], segs, i + 1)
extractDeepProperty(h, value, path) == Walk(h, value, Segments(path), 1)

\* setDeepProperty on a legal path: the heap after writing value at segs[i..]
\* under the object at addr.  An intermediate segment that holds an object is
\* walked into; any other is given a new empty object first.
RECURSIVE SetFrom(_, _, _, _, _)
SetFrom(h, addr, segs, i, value) ==
    LET key == segs[i].s
        props == h[addr].props
    IN  IF i = Len(segs)
        THEN [h EXCEPT ![addr].props = SetKey(props, key, value)]
        ELSE IF key \in DOMAIN props /\ isObject(props[key])
        THEN SetFrom(h, props[key].n, segs, i + 1, value)
        ELSE LET fresh == Len(h) + 1
                 h1 == Append([h EXCEPT ![addr].props =
                                  SetKey(props, key, Ref(fresh))],
                              Obj(NoProps))
             IN  SetFrom(h1, fresh, segs, i + 1, value)
setDeepProperty(h, addr, path, value) ==
    SetFrom(h, addr, Segments(path), 1, value)

----------------------------------------------------------------------------
(* Instructions.                                                           *)

\* The `from` of an instruction: undefined (none given), null, a path, or a
\* multi-source descriptor {paths, combine}.
FromNone == [kind |-> "undefined", str |-> <<>>, segs |-> <<>>,
             paths |-> <<>>, combine |-> "undefined"]
FromPath(path) == [kind |-> path.kind, str |-> path.str, segs |-> path.segs,
                   paths |-> <<>>, combine |-> "undefined"]
FromPaths(paths, combine) == [kind |-> "object", str |-> <<>>, segs |-> <<>>,
                              paths |-> paths, combine |-> combine]

\* An `instructions` argument or property: undefined, one instruction object,
\* or an array of them.
NoInstr == [none |-> TRUE]
NoInstructions == [kind |-> "undefined", one |-> NoInstr, items |-> <<>>]
OneInstruction(ins) == [kind |-> "object", one |-> ins, items |-> <<>>]
InstructionList(items) == [kind |-> "array", one |-> NoInstr, items |-> items]

\* An instruction object.  transform and combine name what the callback does
\* when called ("undefined": no such property; "notfn": a value that is not a
\* function).  default Undef is no default.
Instruction(from, to, nested, transform, default) ==
    [from |-> from, to |-> to, instructions |-> nested,
     transform |-> transform, default |-> default]

isFunction(callback) == callback \notin {"undefined", "notfn"}

\* What a callback does when called: return a value ("pack", "mark"), or throw
\* an Error or an instance of the accessor's DeepPropertyError.
Throws(callback) == callback \in {"throwError", "throwDPE"}

----------------------------------------------------------------------------
(* Errors.  by is where the error object was made.                         *)

NoError == [cls |-> "none", message |-> "", instruction |-> NoInstr, by |-> ""]
DataTransformError(message, instruction) ==
    [cls |-> "DataTransformError", message |-> message,
     instruction |-> instruction, by |-> "transformData"]
\* The accessor's error for an illegal path.
DeepPropertyError ==
    [cls |-> "DeepPropertyError", message |-> "Invalid path",
     instruction |-> NoInstr, by |-> "accessor"]
\* The error object a throwing callback throws.
CallbackError(callback) ==
    [cls |-> IF callback = "throwDPE" THEN "DeepPropertyError" ELSE "Error",
     message |-> "thrown by callback", instruction |-> NoInstr,
     by |-> "callback"]

----------------------------------------------------------------------------
(* The inputs.                                                             *)

\* Address 1: the object {a: "A"} or {a: "A", v: V}.  Address 2: the object
\* {a: "B"}.  Address 3: the array of the two objects.  Address 4: an empty
\* array.  Address 5: the array [{a: "B"}, null].
HeapWith(props) ==
    <<Obj(props), Obj([k \in {"a"} |-> Str("B")]),
      ArrayOf(<<Ref(1), Ref(2)>>), ArrayOf(<<>>), ArrayOf(<<Ref(2), Null>>)>>
WithV(v) == [k \in {"a", "v"} |-> IF k = "a" THEN Str("A") ELSE v]
WithoutV == [k \in {"a"} |-> Str("A")]

\* The source with the heap it lives in: an object (v not a key, undefined,
\* null or an object), an array of objects, an empty array, an array with an
\* element that is not an object, a string.
SourceCases ==
    {<<Ref(1), HeapWith(p)>> : p \in {WithoutV, WithV(Undef), WithV(Null),
                                      WithV(Ref(2))}} \cup
    {<<Ref(3), HeapWith(WithV(Ref(2)))>>,
     <<Ref(4), HeapWith(WithoutV)>>,
     <<Ref(5), HeapWith(WithoutV)>>,
     <<Str("S"), HeapWith(WithoutV)>>}

Default == Str("D")

PathA == DotPath(<<"a">>)
PathV == DotPath(<<"v">>)
PathVA == DotPath(<<"v", ".", "a">>)
BadPath == ArrayPath(<<Null>>)

\* The nested instruction of the pool: has a transform of its own.
NestedInstruction ==
    Instruction(FromPath(PathA), DotPath(<<"y">>), NoInstructions, "mark", Undef)
\* A nested instruction whose multi-source `from` holds an illegal sub-path.
NestedBadInstruction ==
    Instruction(FromPaths(<<BadPath>>, "undefined"), DotPath(<<"y">>),
                NoInstructions, "undefined", Undef)

Pool ==
    { \* the whole source, by reference
      Instruction(FromPath(NullPath), DotPath(<<"c">>), NoInstructions,
                  "undefined", Undef),
      \* a write under the key c
      Instruction(FromPath(PathA), ArrayPath(<<Str("c"), Str("x")>>),
                  NoInstructions, "undefined", Undef),
      \* v, with a default
      Instruction(FromPath(PathV), DotPath(<<"c">>), NoInstructions,
                  "undefined", Default),
      \* v merged into the result
      Instruction(FromPath(PathV), NullPath, NoInstructions, "undefined", Undef),
      \* v.a transformed, written at a
      Instruction(FromPath(PathVA), DotPath(<<"a">>), NoInstructions,
                  "mark", Undef),
      \* v with nested instructions, a transform and a default
      Instruction(FromPath(PathV), DotPath(<<"x">>),
                  OneInstruction(NestedInstruction), "mark", Default),
      \* a and v combined
      Instruction(FromPaths(<<PathA, PathV>>, "pack"), DotPath(<<"m">>),
                  NoInstructions, "undefined", Default),
      \* the source and v.a as an array, merged into the result
      Instruction(FromPaths(<<NullPath, PathVA>>, "undefined"), NullPath,
                  NoInstructions, "undefined", Undef),
      \* callbacks that throw
      Instruction(FromPaths(<<PathA>>, "throwDPE"), DotPath(<<"x">>),
                  NoInstructions, "undefined", Undef),
      Instruction(FromPaths(<<PathA>>, "throwError"), DotPath(<<"x">>),
                  NoInstructions, "undefined", Undef),
      Instruction(FromPath(PathA), DotPath(<<"x">>), NoInstructions,
                  "throwError", Undef),
      \* illegal paths
      Instruction(FromPath(BadPath), DotPath(<<"x">>), NoInstructions,
                  "undefined", Undef),
      Instruction(FromPath(PathA), BadPath, NoInstructions, "undefined", Undef),
      Instruction(FromPath(NullPath), DotPath(<<"x">>),
                  InstructionList(<<NestedBadInstruction>>), "undefined", Undef),
      \* invalid instructions
      Instruction(FromNone, DotPath(<<"x">>), NoInstructions, "undefined", Undef),
      Instruction(FromPath(PathA), NoPath, NoInstructions, "undefined", Undef),
      Instruction(FromPath(PathA), DotPath(<<"x">>), NoInstructions,
                  "notfn", Undef) }

\* The sequences over S of length at most n.
RECURSIVE SeqsUpTo(_, _)
SeqsUpTo(S, n) ==
    IF n = 0 THEN {<<>>}
    ELSE LET shorter == SeqsUpTo(S, n - 1)
         IN  shorter \cup {Append(q, x) : q \in shorter, x \in S}

InstructionArgs ==
    {InstructionList(q) : q \in SeqsUpTo(Pool, MaxInstrs)} \cup
    {OneInstruction(ins) : ins \in Pool}

\* options: {} or {warn: true}
OptionArgs == {[k \in {} |-> FALSE], [k \in {"warn"} |-> TRUE]}

----------------------------------------------------------------------------
(* The machine's state.                                                    *)

\* A transformData call in progress.  pc is where it is in its body; arg is
\* its instructions argument, opts its options argument; instrs is the
\* normalised instruction list, i the index of the instruction being
\* processed, res the address of resultObject; exists, raw and val are
\* sourceValueExists, sourceValue and resultValue of that instruction; out
\* holds the results of the elements mapped so far when the source is an array.
Frame(src, arg, opts) ==
    [src |-> src, arg |-> arg, opts |-> opts, pc |-> "start", instrs |-> <<>>,
     i |-> 0, res |-> 0, exists |-> FALSE, raw |-> Undef, val |-> Undef,
     out |-> <<>>]

Top == stack[Len(stack)]
Current == Top.instrs[Top.i]
Running == Len(stack) > 0

\* An entry of the log, made at call depth Len(stack).  seen is what the
\* result object held at that moment.
Event(e, ins, args, value, text) ==
    [e |-> e, depth |-> Len(stack), instr |-> ins, args |-> args,
     value |-> value, text |-> text,
     seen |-> IF Running /\ Top.res > 0 THEN heap[Top.res].props ELSE NoProps]

\* The outermost call ends by throwing err.  No frame catches: the recursive
\* call and the transform call are outside the try blocks.
Throw(err, events) ==
    /\ outcome' = [status |-> "threw", value |-> Undef, error |-> err]
    /\ stack' = <<>>
    /\ log' = log \o events

\* Where an instruction goes on with resultValue once the nested
\* instructions, if any, are done.
AfterNested(ins) == IF ins.transform # "undefined" THEN "transform" ELSE "write"

\* The test of line 137 made on the value: if (sourceValue !== undefined)
TakesExistsBranchByValue(exists, value) == value # Undef

\* Line 137: if (sourceValueExists)
TakesExistsBranch(exists, value) == exists

\* The extraction's value handed to the transform at once, the nested
\* instructions left out.
AfterExtractSkipsNested(exists, value, ins) ==
    IF exists THEN AfterNested(ins) ELSE "missing"

\* Where an instruction goes on after its extraction.
AfterExtract(exists, value, ins) ==
    IF TakesExistsBranch(exists, value)
    THEN IF ins.instructions.kind # "undefined" THEN "nested" ELSE AfterNested(ins)
    ELSE "missing"

\* The innermost call returns value: to the caller of transformData when it
\* is the outermost call, else into the frame that made it.
Return(value, events) ==
    LET done == Event("return", NoInstr, <<>>, value, "")
        parent == stack[Len(stack) - 1]
        resumed ==
            IF parent.pc = "awaitElement"
            THEN [parent EXCEPT !.out = Append(@, value), !.pc = "map"]
            ELSE [parent EXCEPT !.val = value,
                                !.pc = AfterNested(parent.instrs[parent.i])]
    IN  /\ log' = log \o events \o <<done>>
        /\ IF Len(stack) = 1
           THEN /\ stack' = <<>>
                /\ outcome' = [status |-> "returned", value |-> value,
                               error |-> NoError]
           ELSE /\ stack' = Append(SubSeq(stack, 1, Len(stack) - 2), resumed)
                /\ UNCHANGED outcome

\* transformData(source, instructions, options) is called, with its
\* instructions drawn from args.
InitWith(args) ==
    /\ \E case \in SourceCases : source = case[1] /\ heap = case[2]
    /\ instructions \in args
    /\ options \in OptionArgs
    /\ heap0 = heap
    /\ stack = <<Frame(source, instructions, options)>>
    /\ outcome = [status |-> "running", value |-> Undef, error |-> NoError]
    /\ log = <<>>
    /\ finished = <<>>

Init == InitWith(InstructionArgs)

----------------------------------------------------------------------------
(* transformData, lines 77-95: the options' defaults, the array source, the *)
(* normalised instructions, the source check and the new result object.    *)

\* Object.assign({warn: false}, options)
WithDefaults(opts) == AssignProps([k \in {"warn"} |-> FALSE], opts)

\* A single instruction object is made a one-element list.
Normalise(arg) == IF arg.kind = "array" THEN arg.items ELSE <<arg.one>>

\* The test of line 93 with an isObject that is typeof value === 'object'
\* alone: null passes.
InvalidSourceByTypeof(h, value) == value.t \notin {"object", "null"}

\* !isObject(sourceObject) && !isArray(sourceObject)
InvalidSource(h, value) == ~isObject(value) /\ ~isArray(h, value)

Begin ==
    /\ Running /\ Top.pc = "start"
    /\ LET opts == WithDefaults(Top.opts)
           called == Event("call", NoInstr, <<Top.src>>, Undef, "")
       IN  IF isArray(heap, Top.src)
           THEN /\ stack' = [stack EXCEPT ![Len(stack)] =
                                [Top EXCEPT !.opts = opts, !.pc = "map"]]
                /\ log' = Append(log, called)
                /\ UNCHANGED <<heap, outcome>>
           ELSE IF InvalidSource(heap, Top.src)
           THEN /\ Throw(DataTransformError(
                            "Source must be an object or an array", NoInstr),
                         <<called>>)
                /\ UNCHANGED heap
           ELSE /\ heap' = Append(heap, Obj(NoProps))
                /\ stack' = [stack EXCEPT ![Len(stack)] =
                                [Top EXCEPT !.opts = opts,
                                            !.instrs = Normalise(Top.arg),
                                            !.res = Len(heap) + 1,
                                            !.i = 1, !.pc = "loop"]]
                /\ log' = Append(log, called)
                /\ UNCHANGED outcome
    /\ UNCHANGED <<finished, source, instructions, options, heap0>>

\* The call for the next element made without the options.
ElementCallWithoutOptions(frame, element) ==
    Frame(element, frame.arg, [k \in {} |-> FALSE])

\* sourceObject.map: the call made for the next element.
ElementCall(frame, element) == Frame(element, frame.arg, frame.opts)

MapElement ==
    /\ Running /\ Top.pc = "map"
    /\ Len(Top.out) < ArrayLength(heap[Top.src.n])
    /\ LET element == ArrayElements(heap[Top.src.n])[Len(Top.out) + 1]
       IN  stack' = Append([stack EXCEPT ![Len(stack)].pc = "awaitElement"],
                           ElementCall(Top, element))
    /\ UNCHANGED <<finished, source, instructions, options, heap, heap0, outcome,
                   log>>

\* sourceObject.map returns the new array.
MapDone ==
    /\ Running /\ Top.pc = "map"
    /\ Len(Top.out) = ArrayLength(heap[Top.src.n])
    /\ heap' = Append(heap, ArrayOf(Top.out))
    /\ Return(Ref(Len(heap) + 1), <<>>)
    /\ UNCHANGED <<finished, source, instructions, options, heap0>>

----------------------------------------------------------------------------
(* transformData, lines 99-112: the loop over the instructions and the     *)
(* validation of one instruction.                                          *)

\* The checks with the messages of the `from` and `to` checks exchanged.
ValidationMessageExchanged(ins) ==
    IF ins.transform # "undefined" /\ ~isFunction(ins.transform)
    THEN "Transform is not a function"
    ELSE IF ins.from.kind = "undefined" THEN "Must supply \"to\" key path"
    ELSE IF ins.to.kind = "undefined" THEN "Must supply \"from\" key path"
    ELSE ""

\* The message of the first check the instruction fails, "" when it passes.
ValidationMessage(ins) ==
    IF ins.transform # "undefined" /\ ~isFunction(ins.transform)
    THEN "Transform is not a function"
    ELSE IF ins.from.kind = "undefined" THEN "Must supply \"from\" key path"
    ELSE IF ins.to.kind = "undefined" THEN "Must supply \"to\" key path"
    ELSE ""

Validate ==
    /\ Running /\ Top.pc = "loop" /\ Top.i <= Len(Top.instrs)
    /\ IF ValidationMessage(Current) # ""
       THEN Throw(DataTransformError(ValidationMessage(Current), Current), <<>>)
       ELSE /\ stack' = [stack EXCEPT ![Len(stack)].pc = "extract"]
            /\ UNCHANGED <<outcome, log>>
    /\ UNCHANGED <<finished, source, instructions, options, heap, heap0>>

\* Line 191: the loop is over; resultObject is returned.
Finish ==
    /\ Running /\ Top.pc = "loop" /\ Top.i > Len(Top.instrs)
    /\ Return(Ref(Top.res), <<>>)
    /\ UNCHANGED <<finished, source, instructions, options, heap, heap0>>

----------------------------------------------------------------------------
(* Extraction: extractProperty, extractCombinedProperties and              *)
(* transformData, lines 114-133.                                           *)

\* What an extraction gives: an error thrown, or exists and value; with the
\* heap it leaves and the combine call it made (args), if any.
Extracted(exists, value, h) ==
    [error |-> NoError, exists |-> exists, value |-> value, heap |-> h,
     called |-> FALSE, args |-> <<>>]
Raised(err, h) ==
    [error |-> err, exists |-> FALSE, value |-> Undef, heap |-> h,
     called |-> FALSE, args |-> <<>>]

\* The accessor's extractDeepProperty: it throws on an illegal path.
ExtractDeep(h, value, path) ==
    IF IllegalPath(path) THEN Raised(DeepPropertyError, h)
    ELSE LET found == extractDeepProperty(h, value, path)
         IN  Extracted(found[1], found[2], h)

extractProperty(h, sourceObject, path) ==
    IF path.kind = "null" THEN Extracted(TRUE, sourceObject, h)
    ELSE ExtractDeep(h, sourceObject, path)

\* The reduction with || from false: some sub-path exists.
someExist(extracts) == \E i \in 1..Len(extracts) : extracts[i].exists

\* extracts.reduce((state, [exists]) => state && exists, true)
allExist(extracts) == \A i \in 1..Len(extracts) : extracts[i].exists

\* The keys of the object the "pack" combine returns for its arguments, in
\* argument order: (a, v, w) => ({a, v, w}).
PackKey == <<"a", "v", "w">>
Packed(values) ==
    Obj([k \in {PackKey[i] : i \in 1..Len(values)} |->
            values[CHOOSE i \in 1..Len(values) : PackKey[i] = k]])

\* instruction.combine(...allValues)
CallCombine(combine, allValues, h) ==
    IF Throws(combine)
    THEN [Raised(CallbackError(combine), h) EXCEPT
            !.called = TRUE, !.args = allValues]
    ELSE [Extracted(TRUE, Ref(Len(h) + 1), Append(h, Packed(allValues))) EXCEPT
            !.called = TRUE, !.args = allValues]

extractCombinedProperties(h, sourceObject, from) ==
    LET extracts == [i \in 1..Len(from.paths) |->
                        extractProperty(h, sourceObject, from.paths[i])]
        thrown == {i \in 1..Len(extracts) : extracts[i].error # NoError}
        allValues == [i \in 1..Len(extracts) |-> extracts[i].value]
    IN  IF thrown # {}
        THEN extracts[CHOOSE i \in thrown : \A j \in thrown : i <= j]
        ELSE IF ~allExist(extracts) THEN Extracted(FALSE, Undef, h)
        ELSE IF from.combine # "undefined"
        THEN CallCombine(from.combine, allValues, h)
        ELSE Extracted(TRUE, Ref(Len(h) + 1), Append(h, ArrayOf(allValues)))

\* instruction.from !== null && instruction.from.paths !== undefined
combinedSource(from) == from.kind = "object"

\* Lines 121-123.
ExtractFor(h, sourceObject, ins) ==
    IF combinedSource(ins.from)
    THEN extractCombinedProperties(h, sourceObject, ins.from)
    ELSE extractProperty(h, sourceObject, ins.from)

\* A catch block that throws what it caught.
CaughtInFromRethrown(err, ins) == err

\* Lines 124-133: what the catch block throws for an error caught.
CaughtInFrom(err, ins) ==
    IF err.cls = "DeepPropertyError"
    THEN DataTransformError("In \"from\": " \o err.message, ins)
    ELSE err

\* throwUnexpectedError's console.warn, when the catch block goes that way.
UnexpectedWarning(err) ==
    IF err.cls = "DeepPropertyError" THEN <<>>
    ELSE <<Event("warn", NoInstr, <<>>, Undef, "This error should not happen.")>>

Extract ==
    /\ Running /\ Top.pc = "extract"
    /\ LET got == ExtractFor(heap, Top.src, Current)
           combined == IF got.called
                       THEN <<Event("combine", Current, got.args, Undef, "")>>
                       ELSE <<>>
           extracted == Event("extract", Current, <<Top.src>>, got.value,
                              IF got.exists THEN "exists" ELSE "missing")
       IN  IF got.error # NoError
           THEN /\ Throw(CaughtInFrom(got.error, Current),
                         combined \o UnexpectedWarning(got.error))
                /\ UNCHANGED heap
           ELSE /\ heap' = got.heap
                /\ stack' = [stack EXCEPT ![Len(stack)] =
                                [Top EXCEPT !.exists = got.exists,
                                            !.raw = got.value,
                                            !.val = got.value,
                                            !.pc = AfterExtract(got.exists,
                                                                got.value,
                                                                Current)]]
                /\ log' = log \o combined \o <<extracted>>
                /\ UNCHANGED outcome
    /\ UNCHANGED <<finished, source, instructions, options, heap0>>

----------------------------------------------------------------------------
(* transformData, lines 137-153: the extraction exists.                    *)

\* Lines 141-145: the recursive call for the nested instructions.
NestedCall(frame, ins) == Frame(frame.val, ins.instructions, frame.opts)

ApplyNested ==
    /\ Running /\ Top.pc = "nested"
    /\ stack' = Append([stack EXCEPT ![Len(stack)].pc = "awaitNested"],
                       NestedCall(Top, Current))
    /\ UNCHANGED <<finished, source, instructions, options, heap, heap0, outcome,
                   log>>

\* The transform given the source of the outermost call.
TransformArgsOutermost(frame) == <<frame.val, Ref(frame.res), source>>

\* Lines 148-152: the arguments of instruction.transform.
TransformArgs(frame) == <<frame.val, Ref(frame.res), frame.src>>

\* What the "mark" transform returns.
Marked == Str("T")

ApplyTransform ==
    /\ Running /\ Top.pc = "transform"
    /\ LET called == Event("transform", Current, TransformArgs(Top), Top.raw, "")
       IN  IF Throws(Current.transform)
           THEN Throw(CallbackError(Current.transform), <<called>>)
           ELSE /\ stack' = [stack EXCEPT ![Len(stack)] =
                                [Top EXCEPT !.val = Marked, !.pc = "write"]]
                /\ log' = Append(log, called)
                /\ UNCHANGED outcome
    /\ UNCHANGED <<finished, source, instructions, options, heap, heap0>>

----------------------------------------------------------------------------
(* transformData, lines 154-165: the extraction does not exist.            *)

\* Array.prototype.join
RECURSIVE Join(_, _)
Join(texts, sep) ==
    IF Len(texts) = 0 THEN ""
    ELSE IF Len(texts) = 1 THEN texts[1]
    ELSE texts[1] \o sep \o Join(Tail(texts), sep)

\* A value in a template literal or as an element of a joined array.
Interpolated(value) ==
    IF value.t = "string" THEN value.s
    ELSE IF value.t = "undefined" THEN "undefined"
    ELSE IF value.t = "null" THEN "null"
    ELSE "[object Object]"
Joined(value) == IF value.t \in {"undefined", "null"} THEN "" ELSE Interpolated(value)

\* stringifyPath of a single path: a string, or undefined for null.
StringifySingle(path) ==
    IF path.kind = "array"
    THEN Str(Join([i \in 1..Len(path.segs) |-> Joined(path.segs[i])], " => "))
    ELSE IF path.kind = "string"
    THEN Str(Join(Split(path.str), " => "))
    ELSE Undef

stringifyPath(from) ==
    IF from.kind = "object"
    THEN Str(Join([i \in 1..Len(from.paths) |->
                      "[" \o Interpolated(StringifySingle(from.paths[i])) \o "]"],
                  ","))
    ELSE StringifySingle(from)

\* The diagnostic written whatever options.warn is.
WarningAlways(opts, ins) ==
    <<Event("warn", ins, <<>>, Undef,
            "Value does not exist at: " \o Interpolated(stringifyPath(ins.from)))>>

\* Lines 155-157.
Warning(opts, ins) ==
    IF opts["warn"]
    THEN <<Event("warn", ins, <<>>, Undef,
                 "Value does not exist at: " \o Interpolated(stringifyPath(ins.from)))>>
    ELSE <<>>

\* Lines 158-164: resultValue when the extraction does not exist.
DefaultValue(ins) == IF ins.default # Undef THEN ins.default ELSE Undef

UseDefault ==
    /\ Running /\ Top.pc = "missing"
    /\ stack' = [stack EXCEPT ![Len(stack)] =
                    [Top EXCEPT !.val = DefaultValue(Current), !.pc = "write"]]
    /\ log' = log \o Warning(Top.opts, Current)
    /\ UNCHANGED <<finished, source, instructions, options, heap, heap0,
                   outcome>>

----------------------------------------------------------------------------
(* transformData, lines 167-189: resultValue is put into resultObject.     *)

\* Line 169 as a test for a plain object: arrays refused.
AssignablePlainOnly(h, value) == isObject(value) /\ h[value.n].kind = "object"

\* Line 169: a value Object.assign may take its properties from.
Assignable(h, value) == isObject(value)

\* Object.assign(resultObject, resultValue)
Assigned(h, res, value) ==
    [h EXCEPT ![res].props = AssignProps(@, h[value.n].props)]

\* Lines 179-187: what the catch block throws for the accessor's error.
CaughtInTo(err, ins) == DataTransformError("In \"to\": " \o err.message, ins)

Write ==
    /\ Running /\ Top.pc = "write"
    /\ LET written == Event("write", Current, <<Top.src, Ref(Top.res)>>,
                            Top.val, "")
           next == [stack EXCEPT ![Len(stack)] =
                       [Top EXCEPT !.i = @ + 1, !.pc = "loop"]]
       IN  IF Current.to.kind = "null"
           THEN IF ~Assignable(heap, Top.val)
                THEN /\ Throw(DataTransformError(
                                 "Cannot assign properties from a non-object",
                                 Current), <<>>)
                     /\ UNCHANGED heap
                ELSE /\ heap' = Assigned(heap, Top.res, Top.val)
                     /\ stack' = next
                     /\ log' = Append(log, written)
                     /\ UNCHANGED outcome
           ELSE IF IllegalPath(Current.to)
                THEN /\ Throw(CaughtInTo(DeepPropertyError, Current), <<>>)
                     /\ UNCHANGED heap
                ELSE /\ heap' = setDeepProperty(heap, Top.res, Current.to, Top.val)
                     /\ stack' = next
                     /\ log' = Append(log, written)
                     /\ UNCHANGED outcome
    /\ UNCHANGED <<finished, source, instructions, options, heap0>>

----------------------------------------------------------------------------

Next ==
    \/ Begin
    \/ MapElement
    \/ MapDone
    \/ Validate
    \/ Finish
    \/ Extract
    \/ ApplyNested
    \/ ApplyTransform
    \/ UseDefault
    \/ Write

Spec == Init /\ [][Next]_vars

----------------------------------------------------------------------------
(* Calls made one after another: transformDataFactory, and the function it *)
(* returns called again.                                                   *)

\* How many levels deep a returned value is compared.
SnapshotDepth == 4

\* A value as deep equality sees it at that moment: a primitive, or an
\* object or array with its properties' values, SnapshotDepth levels down.
RECURSIVE Seen(_, _, _)
Seen(h, value, depth) ==
    IF value.t # "object"
    THEN [t |-> value.t, s |-> value.s, kind |-> "", props |-> NoProps]
    ELSE IF depth = 0
    THEN [t |-> "object", s |-> "...", kind |-> h[value.n].kind,
          props |-> NoProps]
    ELSE [t |-> "object", s |-> "", kind |-> h[value.n].kind,
          props |-> [k \in DOMAIN h[value.n].props |->
                        Seen(h, h[value.n].props[k], depth - 1)]]

\* The texts written to the console, in order.
Warnings(events) ==
    LET warned == SelectSeq(events, LAMBDA e : e.e = "warn")
    IN  [j \in 1..Len(warned) |-> warned[j].text]

\* The outermost call that has just ended, as its caller saw it: how it was
\* made, its result or error, and the console.
Observed(via) ==
    [via |-> via, opts |-> options, status |-> outcome.status,
     value |-> Seen(heap, outcome.value, SnapshotDepth),
     error |-> outcome.error, warnings |-> Warnings(log)]

\* transformDataFactory(instructions): the function returned holds the
\* instructions it was made with and nothing else.
transformDataFactory(instrs) == [instructions |-> instrs]

\* Lines 72-74: the returned function called with sourceObject and args, the
\* arguments given after it (none, or the options); options = {} by default.
FactoryCall(fn, sourceObject, args) ==
    Frame(sourceObject, fn.instructions,
          IF Len(args) = 0 THEN [k \in {} |-> FALSE] ELSE args[1])

\* After the transformData call: transformDataFactory(instructions) is made
\* and called on an equal source (the objects as they were before the first
\* call), with the same options, or with none when the options were {}.
CallFactory ==
    /\ outcome.status # "running" /\ Len(finished) = 0
    /\ \E args \in {<<options>>} \cup
                   (IF DOMAIN options = {} THEN {<<>>} ELSE {}) :
          stack' = <<FactoryCall(transformDataFactory(instructions), source,
                                 args)>>
    /\ finished' = Append(finished, Observed("transformData"))
    /\ heap' = heap0
    /\ outcome' = [status |-> "running", value |-> Undef, error |-> NoError]
    /\ log' = <<>>
    /\ UNCHANGED <<source, instructions, options, heap0>>

\* The same function is called once more on the same source object, which
\* is as the call before left it.
CallFactoryAgain ==
    /\ outcome.status # "running" /\ Len(finished) = 1
    /\ finished[1].via = "transformData"
    /\ stack' = <<FactoryCall(transformDataFactory(instructions), source,
                              <<options>>)>>
    /\ finished' = Append(finished, Observed("factory"))
    /\ outcome' = [status |-> "running", value |-> Undef, error |-> NoError]
    /\ log' = <<>>
    /\ UNCHANGED <<source, instructions, options, heap, heap0>>

\* x read with a default.
ReadX ==
    Instruction(FromPath(DotPath(<<"x">>)), DotPath(<<"y">>), NoInstructions,
                "undefined", Default)
\* The source handed to nested instructions that keep it under c and write
\* a at c.x.
KeepAndWrite ==
    Instruction(FromPath(NullPath), DotPath(<<"r">>),
                InstructionList(<<
                    Instruction(FromPath(NullPath), DotPath(<<"c">>),
                                NoInstructions, "undefined", Undef),
                    Instruction(FromPath(PathA),
                                ArrayPath(<<Str("c"), Str("x")>>),
                                NoInstructions, "undefined", Undef)>>),
                "undefined", Undef)

\* The instructions the functions of transformDataFactory are made with.
FactoryPool ==
    { ReadX, KeepAndWrite,
      Instruction(FromPath(PathV), DotPath(<<"c">>), NoInstructions,
                  "undefined", Default),
      Instruction(FromPath(PathV), NullPath, NoInstructions, "undefined", Undef),
      Instruction(FromPath(PathVA), DotPath(<<"a">>), NoInstructions,
                  "mark", Undef),
      Instruction(FromPath(PathA), DotPath(<<"x">>), NoInstructions,
                  "throwError", Undef),
      Instruction(FromNone, DotPath(<<"x">>), NoInstructions, "undefined", Undef) }

FactoryArgs ==
    {InstructionList(q) : q \in SeqsUpTo(FactoryPool, MaxInstrs)} \cup
    {OneInstruction(ins) : ins \in FactoryPool}

FactoryInit == InitWith(FactoryArgs)

FactoryNext ==
    \/ Next
    \/ CallFactory
    \/ CallFactoryAgain

FactorySpec == FactoryInit /\ [][FactoryNext]_vars

----------------------------------------------------------------------------
(* transformData called a second time with the other setting of warn.      *)

\* options with warn the other way: {} becomes {warn: true}, {warn: true}
\* becomes {warn: false}.
OtherWarn(opts) ==
    [k \in {"warn"} |-> ~WithDefaults(opts)["warn"]]

\* After the call: transformData(source, instructions, other options) on an
\* equal source (the objects as they were before the first call).
CallWithOtherWarn ==
    /\ outcome.status # "running" /\ Len(finished) = 0
    /\ options' = OtherWarn(options)
    /\ stack' = <<Frame(source, instructions, options')>>
    /\ finished' = Append(finished, Observed("transformData"))
    /\ heap' = heap0
    /\ outcome' = [status |-> "running", value |-> Undef, error |-> NoError]
    /\ log' = <<>>
    /\ UNCHANGED <<source, instructions, heap0>>

\* v with nested instructions that read v again, a transform and a default.
NestedReadV ==
    Instruction(FromPath(PathV), DotPath(<<"x">>),
                OneInstruction(Instruction(FromPath(PathV), DotPath(<<"y">>),
                                           NoInstructions, "undefined", Undef)),
                "mark", Default)

\* The instructions of the calls made with and without warn.
WarnPool ==
    { NestedReadV,
      Instruction(FromPath(PathV), DotPath(<<"c">>), NoInstructions,
                  "undefined", Default),
      Instruction(FromPath(ArrayPath(<<Str("v"), Str("a")>>)), DotPath(<<"a">>),
                  NoInstructions, "undefined", Undef),
      Instruction(FromPaths(<<NullPath, PathVA>>, "undefined"), NullPath,
                  NoInstructions, "undefined", Undef),
      Instruction(FromPaths(<<PathA, PathV>>, "pack"), DotPath(<<"m">>),
                  NoInstructions, "undefined", Default),
      Instruction(FromPaths(<<PathA>>, "throwError"), DotPath(<<"x">>),
                  NoInstructions, "undefined", Undef),
      Instruction(FromPath(PathA), DotPath(<<"x">>), NoInstructions,
                  "throwError", Undef) }

WarnArgs ==
    {InstructionList(q) : q \in SeqsUpTo(WarnPool, MaxInstrs)} \cup
    {OneInstruction(ins) : ins \in WarnPool}

WarnInit == InitWith(WarnArgs)

WarnNext ==
    \/ Next
    \/ CallWithOtherWarn

WarnSpec == WarnInit /\ [][WarnNext]_vars

----------------------------------------------------------------------------
(* One transformData call whose instructions write into what they were     *)
(* given and read it back.                                                  *)

OrderInit == InitWith(FactoryArgs)

OrderSpec == OrderInit /\ [][Next]_vars

----------------------------------------------------------------------------
(* Properties.                                                             *)

Ended == outcome.status # "running"
Returned == outcome.status = "returned"
Threw == outcome.status = "threw"

\* The addresses reachable from a set of addresses in heap h.
RECURSIVE ReachFrom(_, _)
ReachFrom(h, addrs) ==
    LET more == addrs \cup
                {h[a].props[k].n : <<a, k>> \in
                    {<<a, k>> \in addrs \X {"a", "v", "c", "x", "0", "1"} :
                        k \in DOMAIN h[a].props /\ isObject(h[a].props[k])}}
    IN  IF more = addrs THEN addrs ELSE ReachFrom(h, more)
Reachable(h, value) == IF isObject(value) THEN ReachFrom(h, {value.n}) ELSE {}

\* C1: non-mutation.  Once transformData has returned, every object and
\* array that was reachable from the source before the call is as it was:
\* the source is deep-equal to its pre-call snapshot.
C1_SourceNotMutated ==
    Returned => \A a \in Reachable(heap0, source) : heap[a] = heap0[a]

\* An instruction {from: p, to: q, default: D} with single-key paths, no
\* nested instructions and no transform.
PlainWithDefault(ins) ==
    /\ ins.default # Undef
    /\ ins.instructions.kind = "undefined" /\ ins.transform = "undefined"
    /\ ins.from.kind = "string" /\ Len(ins.from.str) = 1
    /\ ins.to.kind = "string" /\ Len(ins.to.str) = 1

\* C2: default versus explicit absence.  The write of an instruction
\* {from: p, to: q, default: D} puts at q the default D when p is not a key
\* of the source, and the source's value at p when it is a key, also when
\* that value is undefined.
C2_DefaultOnlyWhenMissing ==
    [][(Running /\ Top.pc = "write" /\ PlainWithDefault(Current)) =>
        LET props == heap[Top.src.n].props
            p == Current.from.str[1]
            q == Current.to.str[1]
            result == heap'[Top.res].props
        IN  /\ q \in DOMAIN result
            /\ result[q] = IF p \in DOMAIN props THEN props[p]
                           ELSE Current.default]_vars

\* C2's case: the source holds undefined at p, the instruction has a default,
\* and undefined was written.
C2_Witness ==
    \E j \in 1..Len(log) :
        /\ log[j].e = "write" /\ PlainWithDefault(log[j].instr)
        /\ log[j].instr.from.str[1] \in DOMAIN heap[log[j].args[1].n].props
        /\ heap[log[j].args[1].n].props[log[j].instr.from.str[1]] = Undef
        /\ log[j].value = Undef

\* What one sub-path of a multi-source descriptor gives on its own:
\* <<exists, value>>; a null sub-path is the source itself.
SubPath(h, sourceObject, path) ==
    IF path.kind = "null" THEN <<TRUE, sourceObject>>
    ELSE extractDeepProperty(h, sourceObject, path)

\* C3: multi-path AND semantics.  The extraction of a multi-source `from`
\* (with legal sub-paths) exists exactly when every sub-path exists.  When one
\* does not, combine is not called and the instruction takes the
\* does-not-exist branch, which gives the default or undefined.  When all do,
\* combine is called once with the values in `paths` order and its result is
\* the value; without a combine the value is a new array of the values in
\* `paths` order.
C3_AllSubPathsMustExist ==
    [][/\ (Running /\ Top.pc = "extract" /\ combinedSource(Current.from)
            /\ \A i \in 1..Len(Current.from.paths) :
                    ~IllegalPath(Current.from.paths[i])) =>
          LET paths == Current.from.paths
              subs == [i \in 1..Len(paths) |-> SubPath(heap, Top.src, paths[i])]
              values == [i \in 1..Len(paths) |-> subs[i][2]]
              calls == {j \in (Len(log) + 1)..Len(log') : log'[j].e = "combine"}
          IN  IF \E i \in 1..Len(paths) : ~subs[i][1]
              THEN /\ calls = {}
                   /\ Len(stack') = Len(stack)
                   /\ ~Top'.exists /\ Top'.pc = "missing"
              ELSE IF Current.from.combine = "undefined"
              THEN /\ calls = {}
                   /\ Len(stack') = Len(stack)
                   /\ Top'.exists /\ Top'.pc # "missing"
                   /\ Top'.val.n > Len(heap)
                   /\ heap'[Top'.val.n].kind = "array"
                   /\ ArrayElements(heap'[Top'.val.n]) = values
              ELSE /\ Cardinality(calls) = 1
                   /\ \A j \in calls : log'[j].args = values
                   /\ Current.from.combine = "pack" =>
                        /\ Len(stack') = Len(stack)
                        /\ Top'.exists /\ Top'.pc # "missing"
                        /\ heap'[Top'.val.n] = Packed(values)
       /\ (Running /\ Top.pc = "missing" /\ combinedSource(Current.from)) =>
            /\ Top'.pc = "write"
            /\ Top'.val = IF Current.default # Undef THEN Current.default
                          ELSE Undef]_vars

\* C3's case: a multi-source instruction of which one sub-path exists and
\* another does not, in the does-not-exist branch.
C3_Witness ==
    /\ Running /\ Top.pc = "missing" /\ combinedSource(Current.from)
    /\ \E i, j \in 1..Len(Current.from.paths) :
          /\ SubPath(heap, Top.src, Current.from.paths[i])[1]
          /\ ~SubPath(heap, Top.src, Current.from.paths[j])[1]

\* C4: order of operations inside one instruction.  A transform of an
\* instruction that has nested instructions is called right after the nested
\* call has returned, with the value it returned, which is not the extracted
\* value.  When the extraction does not exist, no nested call and no transform
\* follow: the next thing the instruction does (after the warning, if any) is
\* write its default, or undefined, as it is.
C4_NestedBeforeTransform ==
    /\ \A j \in 1..Len(log) :
          /\ (log[j].e = "transform"
                /\ log[j].instr.instructions.kind # "undefined") =>
                /\ j > 1
                /\ log[j - 1].e = "return"
                /\ log[j - 1].depth = log[j].depth + 1
                /\ log[j].args[1] = log[j - 1].value
                /\ log[j].args[1] # log[j].value
          /\ (log[j].e = "extract" /\ log[j].text = "missing") =>
                LET k == IF j < Len(log) /\ log[j + 1].e = "warn"
                         THEN j + 2 ELSE j + 1
                IN  k <= Len(log) =>
                        /\ log[k].e = "write"
                        /\ log[k].instr = log[j].instr
                        /\ log[k].depth = log[j].depth
                        /\ log[k].value = IF log[j].instr.default # Undef
                                          THEN log[j].instr.default ELSE Undef
    /\ \A d \in 1..Len(stack) :
          stack[d].pc \in {"nested", "awaitNested", "transform"} =>
              stack[d].exists

\* C4's case: a transform called with the result of the nested instructions.
C4_Witness ==
    \E j \in 1..Len(log) :
        /\ log[j].e = "transform"
        /\ log[j].instr.instructions.kind # "undefined"
        /\ log[j].args[1] # log[j].value

\* The log entry of the transformData call within which entry j was made:
\* the last "call" before j at j's depth.
CallOf(j) ==
    CHOOSE c \in 1..(j - 1) :
        /\ log[c].e = "call" /\ log[c].depth = log[j].depth
        /\ \A c2 \in (c + 1)..(j - 1) :
              ~(log[c2].e = "call" /\ log[c2].depth = log[j].depth)

\* C5 as claimed: every transform callback, at every recursion level, is
\* given the source of the outermost call as its third argument.
C5_SourceArgumentIsOutermost ==
    \A j \in 1..Len(log) : log[j].e = "transform" => log[j].args[3] = source

\* C5, amended: a transform callback is called as transform(value, result,
\* source) where result is the new result object of the transformData call
\* that processes the instruction, holding what the instructions before it
\* wrote, and source is the source of that same call: the source of the
\* outermost call only for its own instructions on an object source.
C5_TransformArguments ==
    \A j \in 1..Len(log) :
        log[j].e = "transform" =>
            LET c == CallOf(j)
                before == {w \in (c + 1)..(j - 1) :
                              log[w].e = "write" /\ log[w].depth = log[j].depth}
            IN  /\ log[j].args[3] = log[c].args[1]
                /\ (log[j].depth = 1 => log[j].args[3] = source)
                /\ log[j].args[2].n > Len(heap0)
                /\ log[j].seen = NoProps <=> before = {}
                /\ \A w \in before :
                      /\ log[w].args[2] = log[j].args[2]
                      /\ (log[w].instr.to.kind = "string"
                            /\ Len(log[w].instr.to.str) = 1) =>
                            log[w].instr.to.str[1] \in DOMAIN log[j].seen

\* C5's case: a transform of a nested instruction, whose source is the
\* extracted value and not the source of the outermost call.
C5_Witness ==
    \E j \in 1..Len(log) :
        /\ log[j].e = "transform" /\ log[j].depth = 2
        /\ ~isArray(heap, source)
        /\ log[j].args[3] # source

\* What the write of an instruction with to: null does: it fails with
\* 'Cannot assign properties from a non-object', carrying the instruction,
\* and changes nothing; or it copies the value's own properties onto the
\* result, over the keys the result has, and leaves all else as it was.
MergeRule(arraysFail) ==
    (Running /\ Top.pc = "write" /\ Current.to.kind = "null") =>
        IF ~isObject(Top.val) \/ (arraysFail /\ heap[Top.val.n].kind = "array")
        THEN /\ outcome'.status = "threw"
             /\ outcome'.error =
                    [cls |-> "DataTransformError",
                     message |-> "Cannot assign properties from a non-object",
                     instruction |-> Current, by |-> "transformData"]
             /\ heap' = heap
        ELSE LET old == heap[Top.res].props
                 from == heap[Top.val.n].props
                 new == heap'[Top.res].props
             IN  /\ outcome' = outcome
                 /\ DOMAIN new = DOMAIN old \cup DOMAIN from
                 /\ \A k \in DOMAIN from : new[k] = from[k]
                 /\ \A k \in DOMAIN old \ DOMAIN from : new[k] = old[k]
                 /\ Len(heap') = Len(heap)
                 /\ \A a \in 1..Len(heap) : a # Top.res => heap'[a] = heap[a]

\* C6 as claimed: with to: null a produced value that is null, undefined, a
\* primitive or an array makes the call fail; a plain object is merged.
C6_MergeRefusesArrays == [][MergeRule(TRUE)]_vars

\* C6, amended: with to: null a produced value that is null, undefined or a
\* primitive makes the call fail with 'Cannot assign properties from a
\* non-object', carrying the instruction; a plain object or an array is
\* merged: its own properties (an array's indices) are copied onto the
\* result, over same-named keys, all other keys unchanged.
C6_MergeTakesAnyObject == [][MergeRule(FALSE)]_vars

\* C6's case: a merge that wrote over a key an earlier instruction had
\* written.
C6_Witness ==
    \E j \in 1..Len(log) :
        /\ log[j].e = "write" /\ log[j].instr.to.kind = "null"
        /\ \E k \in DOMAIN log[j].seen \cap DOMAIN heap[log[j].value.n].props :
              log[j].seen[k] # heap[log[j].value.n].props[k]

\* The log's entries of kind e at depth d, in order.
Entries(e, d) == SelectSeq(log, LAMBDA ev : ev.e = e /\ ev.depth = d)

\* C7: array fan-out.  The call made for an element of an array source has
\* that element as its source, in index order, and the instructions and
\* options of the call on the array.  When the call on an array source
\* returns, it returns a new array as long as the source, whose i-th element
\* is what the i-th element's call returned; those are new objects, no two
\* the same, and a transform callback is given the result object of its own
\* element's call only.
C7_ArrayFanOut ==
    /\ \A d \in 1..(Len(stack) - 1) :
          stack[d].pc = "awaitElement" =>
              /\ stack[d + 1].src =
                    ArrayElements(heap[stack[d].src.n])[Len(stack[d].out) + 1]
              /\ stack[d + 1].arg = stack[d].arg
              /\ stack[d + 1].opts = stack[d].opts
    /\ (Len(stack) > 1 /\ stack[1].pc = "awaitElement") =>
          /\ stack[2].arg = instructions
          /\ stack[2].opts["warn"] =
                ("warn" \in DOMAIN options /\ options["warn"])
    /\ (Returned /\ isArray(heap0, source)) =>
          LET elements == ArrayElements(heap0[source.n])
              calls == Entries("call", 2)
              returns == Entries("return", 2)
              result == heap[outcome.value.n]
          IN  /\ outcome.value.n > Len(heap0)
              /\ result.kind = "array"
              /\ ArrayLength(result) = Len(elements)
              /\ Len(calls) = Len(elements) /\ Len(returns) = Len(elements)
              /\ \A i \in 1..Len(elements) :
                    /\ calls[i].args[1] = elements[i]
                    /\ ArrayElements(result)[i] = returns[i].value
                    /\ returns[i].value.n > Len(heap0)
                    /\ \A k \in 1..Len(elements) :
                          k # i => returns[k].value # returns[i].value
              /\ \A j \in 1..Len(log) :
                    (log[j].e = "transform" /\ log[j].depth = 2) =>
                        \E i \in 1..Len(elements) :
                            /\ log[j].args[2] = returns[i].value
                            /\ log[j].args[3] = elements[i]

\* C7's case: a two-element array source transformed, with a transform
\* callback called for an element.
C7_Witness ==
    /\ Returned /\ isArray(heap0, source)
    /\ ArrayLength(heap[outcome.value.n]) = 2
    /\ \E j \in 1..Len(log) : log[j].e = "transform" /\ log[j].depth = 2

\* The messages that match what an instruction lacks.
Defects(ins) ==
    {m \in {"Must supply \"from\" key path", "Must supply \"to\" key path",
            "Transform is not a function"} :
        \/ m = "Must supply \"from\" key path" /\ ins.from.kind = "undefined"
        \/ m = "Must supply \"to\" key path" /\ ins.to.kind = "undefined"
        \/ m = "Transform is not a function" /\ ins.transform = "notfn"}

\* The instruction list of the outermost call.
GivenList ==
    IF instructions.kind = "array" THEN instructions.items
    ELSE <<instructions.one>>

\* The call on a source for which sourceOk holds, with an instruction list
\* whose first invalid instruction is the k-th, has ended: it threw; and when
\* the k - 1 instructions before it were completed (each wrote its value), it
\* threw the DataTransformError of the k-th instruction, with a matching
\* message, and nothing was done for that instruction.
ValidationRule(sourceOk) ==
    (Ended /\ sourceOk /\ \E k \in 1..Len(GivenList) : Defects(GivenList[k]) # {}) =>
        LET k == CHOOSE i \in 1..Len(GivenList) :
                    /\ Defects(GivenList[i]) # {}
                    /\ \A j \in 1..(i - 1) : Defects(GivenList[j]) = {}
            d == IF isArray(heap0, source) THEN 2 ELSE 1
            writes == Entries("write", d)
        IN  /\ Threw
            /\ Len(writes) <= k - 1
            /\ Len(writes) = k - 1 =>
                  /\ outcome.error.cls = "DataTransformError"
                  /\ outcome.error.instruction = GivenList[k]
                  /\ outcome.error.message \in Defects(GivenList[k])
            /\ \A j \in 1..Len(log) : log[j].instr # GivenList[k]

\* C8 as claimed: the rule for every source that is an object or an array,
\* of any length.
C8_InvalidInstructionAlwaysThrows == ValidationRule(isObject(source))

\* C8, amended: the rule for every source that is an object or a non-empty
\* array of objects.  (An empty array is returned as a new empty array, no
\* instruction validated.)
C8_InvalidInstructionThrows ==
    ValidationRule(
        /\ isObject(source)
        /\ isArray(heap0, source) =>
              /\ ArrayLength(heap0[source.n]) > 0
              /\ \A i \in 1..ArrayLength(heap0[source.n]) :
                    LET element == ArrayElements(heap0[source.n])[i]
                    IN  isObject(element) /\ ~isArray(heap0, element))

\* C8's case: an array source, a valid instruction completed and then an
\* instruction without `to` refused.
C8_Witness ==
    /\ Threw /\ isArray(heap0, source)
    /\ outcome.error.message = "Must supply \"to\" key path"
    /\ Len(Entries("write", 2)) = 1

\* A `from` the accessor refuses: an illegal path, or a multi-source
\* descriptor with an illegal sub-path.
RefusedFrom(from) ==
    IF from.kind = "object"
    THEN \E i \in 1..Len(from.paths) : IllegalPath(from.paths[i])
    ELSE IllegalPath(from)

\* The outcome of a call that threw a DataTransformError.
ThrewTransformError(message, ins) ==
    [status |-> "threw", value |-> Undef,
     error |-> [cls |-> "DataTransformError", message |-> message,
                instruction |-> ins, by |-> "transformData"]]

\* C9: path errors never leak raw.  At every recursion level, an extraction
\* whose `from` (or one of its sub-paths) the accessor refuses ends the
\* outermost call with a DataTransformError 'In "from": ' followed by the
\* accessor's message, carrying the instruction; a write whose `to` the
\* accessor refuses, with one 'In "to": ' likewise; and the error of the
\* outermost call is never the accessor's own.
C9_PathErrorsAreWrapped ==
    [][/\ (Running /\ Top.pc = "extract" /\ RefusedFrom(Current.from)) =>
            outcome' = ThrewTransformError(
                           "In \"from\": " \o DeepPropertyError.message, Current)
       /\ (Running /\ Top.pc = "write" /\ Current.to.kind # "null"
            /\ IllegalPath(Current.to)) =>
            outcome' = ThrewTransformError(
                           "In \"to\": " \o DeepPropertyError.message, Current)
       /\ outcome'.error.by # "accessor"]_vars

\* C9's case: an illegal sub-path of a multi-source `from` in a nested
\* instruction, reported for that instruction.
C9_Witness ==
    /\ Threw
    /\ outcome.error.message = "In \"from\": Invalid path"
    /\ outcome.error.instruction = NestedBadInstruction

\* C10: user callback errors propagate unmodified.  When a combine or a
\* transform callback has thrown, the outermost call has thrown that same
\* error object.
C10_CallbackErrorsUnmodified ==
    \A j \in 1..Len(log) :
        /\ (log[j].e = "combine" /\ Throws(log[j].instr.from.combine)) =>
              /\ Threw
              /\ outcome.error = CallbackError(log[j].instr.from.combine)
        /\ (log[j].e = "transform" /\ Throws(log[j].instr.transform)) =>
              /\ Threw
              /\ outcome.error = CallbackError(log[j].instr.transform)

----------------------------------------------------------------------------
\* The error of line 94.
SourceError ==
    DataTransformError("Source must be an object or an array", NoInstr)

\* A transformData call is about to run its body on value.
AppliedTo(value) == Running /\ Top.pc = "start" /\ Top.src = value

\* Neither a mapping nor a sequence: undefined, null or a string here.
NotMappingNorSequence(value) == value.t # "object"

\* C11: a transformData call applied to a value that is neither a mapping
\* nor a sequence (the source of the outermost call, an element of an array
\* source, or an extracted value handed to nested instructions) fails with
\* the DataTransformError 'Source must be an object or an array', which
\* carries no instruction and reaches the caller of the outermost call; the
\* call does nothing else: nothing is validated, extracted, called or
\* written for that value, and no object is made or changed.
C11_InvalidSourceThrows ==
    [][\A value \in {Undef, Null, Str("S")} :
          AppliedTo(value) /\ NotMappingNorSequence(value) =>
              /\ outcome' = [status |-> "threw", value |-> Undef,
                              error |-> SourceError]
              /\ stack' = <<>>
              /\ heap' = heap
              /\ Len(log') = Len(log) + 1
              /\ log'[Len(log')].e = "call"]_vars

\* The second element of an array source is null: the first element was
\* transformed, then the call for the second one threw.
C11_Witness ==
    /\ Threw /\ outcome.error = SourceError
    /\ source = Ref(5)
    /\ \E j \in 1..Len(log) : log[j].e = "return" /\ log[j].depth = 2
    /\ log[Len(log)].e = "call" /\ log[Len(log)].depth = 2
    /\ log[Len(log)].args = <<Null>>

----------------------------------------------------------------------------
\* The call that has ended is, to its caller, the j-th call before it over
\* again: the same result or error and the same console output.
SameAsCall(j) ==
    outcome.status # "running" =>
        /\ outcome.status = finished[j].status
        /\ Seen(heap, outcome.value, SnapshotDepth) = finished[j].value
        /\ outcome.error = finished[j].error
        /\ Warnings(log) = finished[j].warnings

\* The function of transformDataFactory(I), called on a source with the
\* options (or with none, for {}), ends as transformData(source, I, options)
\* does on an equal source.
C12_FactoryCallIsTransformData == Len(finished) = 1 => SameAsCall(1)

\* C12: the function of transformDataFactory(I) called on a source ends as
\* transformData(source, I, options) does (an equal result, or the same
\* error), and called again on the same source it ends as it did the first
\* time.
C12_FactoryEquivalence ==
    /\ Len(finished) = 1 => SameAsCall(1)
    /\ Len(finished) = 2 => SameAsCall(2)

----------------------------------------------------------------------------
\* The extractions of this call that did not exist, and the diagnostics
\* written for a missing extraction, each in order.
MissingExtractions ==
    SelectSeq(log, LAMBDA e : e.e = "extract" /\ e.text = "missing")
MissingDiagnostics ==
    SelectSeq(log, LAMBDA e : e.e = "warn" /\ e.instr # NoInstr)

\* An extraction was found missing and line 155 has not been reached yet.
AtMissing == Running /\ Top.pc = "missing"

\* The setting of warn the call runs with.
WarnSetting == "warn" \in DOMAIN options /\ options["warn"]

\* C13: warn is observational only.  transformData(source, I, options) with
\* warn the other way ends as the first call did on an equal source: an
\* equal result, or the same error.  With warn true there is one diagnostic
\* for each extraction that does not exist, written for that instruction at
\* its recursion level (in the calls for nested instructions and for the
\* elements of an array too), its text built from the instruction's `from`
\* without an error; with warn false (or not given) there is none.
C13_WarnIsObservational ==
    /\ Len(finished) = 1 /\ outcome.status # "running" =>
          /\ outcome.status = finished[1].status
          /\ Seen(heap, outcome.value, SnapshotDepth) = finished[1].value
          /\ outcome.error = finished[1].error
    /\ IF WarnSetting
       THEN /\ Len(MissingDiagnostics) =
                   Len(MissingExtractions) - (IF AtMissing THEN 1 ELSE 0)
            /\ \A j \in 1..Len(MissingDiagnostics) :
                  /\ MissingDiagnostics[j].instr = MissingExtractions[j].instr
                  /\ MissingDiagnostics[j].depth = MissingExtractions[j].depth
                  /\ MissingDiagnostics[j].text =
                        "Value does not exist at: " \o
                        Interpolated(stringifyPath(MissingDiagnostics[j].instr.from))
       ELSE MissingDiagnostics = <<>>

\* The first call, with warn true, wrote a diagnostic for a dot path and one
\* for a multi-source `from` with a null sub-path, in a call below the
\* outermost one; the second call, with warn false, found the same
\* extractions missing, wrote nothing and threw as the first did.
C13_Witness ==
    /\ Len(finished) = 1 /\ outcome.status = "threw"
    /\ ~WarnSetting /\ MissingExtractions # <<>>
    /\ finished[1].warnings =
          <<"Value does not exist at: v", "Value does not exist at: [undefined],[v => a]">>
    /\ \E j \in 1..Len(MissingExtractions) : MissingExtractions[j].depth = 2

----------------------------------------------------------------------------
\* The outermost call is about to extract for its current instruction.
AtExtract == Running /\ Len(stack) = 1 /\ Top.pc = "extract"

\* What the current instruction's extraction gives from the source as it
\* was when the call was made, nothing processed before it.
ExtractedAlone == ExtractFor(heap0, source, Current)

\* C14: within one transformData call, what an instruction extracts (its
\* exists flag and its value, or the error that ends the call) is what its
\* `from` gives from the source as the call received it, whatever
\* instructions were processed before it and whatever they wrote.
C14_ExtractionIndependent ==
    [][AtExtract =>
          IF ExtractedAlone.error # NoError
          THEN outcome'.status = "threw"
          ELSE /\ outcome'.status = "running"
               /\ Top'.exists = ExtractedAlone.exists
               /\ Seen(heap', Top'.raw, SnapshotDepth) =
                     Seen(ExtractedAlone.heap, ExtractedAlone.value,
                          SnapshotDepth)]_vars

\* The extractions of the outermost call so far.
OwnExtractions ==
    SelectSeq(log, LAMBDA e : e.e = "extract" /\ e.depth = 1)
\* The writes of the outermost call so far.
OwnWrites == SelectSeq(log, LAMBDA e : e.e = "write" /\ e.depth = 1)

\* The outermost call of a non-array source takes its instructions one at a
\* time in list order: the j-th extraction and the j-th write are for the
\* j-th instruction, and the result object holds what the last write left.
C14_ProcessedInListOrder ==
    Len(stack) >= 1 /\ ~isArray(heap0, source) /\ stack[1].pc # "start" =>
        /\ \A j \in 1..Len(OwnExtractions) :
              OwnExtractions[j].instr = stack[1].instrs[j]
        /\ \A j \in 1..Len(OwnWrites) :
              OwnWrites[j].instr = stack[1].instrs[j]
        /\ Len(OwnWrites) = stack[1].i - 1
        /\ Len(OwnExtractions) \in {stack[1].i - 1, stack[1].i}

====
